---- MODULE Spec2Model ----
(***************************************************************************)
(* Model of checker.py: check_stx_balances (the batch balance scan), main  *)
(* (the file driver) and the module-level entry guard.                     *)
(*                                                                         *)
(* Python strings are sequences of one-character strings.  A JSON value is *)
(* a record [t, s, n]: t is its type, s its characters when it is a        *)
(* string, n its value when it is an integer.  A float STX amount is the   *)
(* record [whole, frac]: whole STX and millionths, i.e. the quotient and   *)
(* remainder of the micro-STX integer by 1,000,000.                        *)
(***************************************************************************)
EXTENDS Integers, Sequences, FiniteSets, TLC

\* ------------------------------------------------------------------ bounds
MaxEntries == 2
MaxLong == 6
MaxRuns == 2

\* ------------------------------------------------------- program constants
MicroPerSTX == 1000000
DefaultMinMicro == 5000000
PauseEvery == 5
HTTP_OK == 200

\* ------------------------------------------------------------ JSON values
JStr(s) == [t |-> "str", s |-> s, n |-> 0]
JInt(n) == [t |-> "int", s |-> <<>>, n |-> n]
JNull == [t |-> "null", s |-> <<>>, n |-> 0]

\* ------------------------------------------------------------- str methods
Whitespace == {" ", "\t", "\n"}

RECURSIVE LStrip(_)
LStrip(s) ==
    IF s = <<>> THEN s
    ELSE IF Head(s) \in Whitespace THEN LStrip(Tail(s)) ELSE s

RECURSIVE RStrip(_)
RStrip(s) ==
    IF s = <<>> THEN s
    ELSE IF s[Len(s)] \in Whitespace THEN RStrip(SubSeq(s, 1, Len(s) - 1)) ELSE s

\* str.strip(): drops leading and trailing whitespace only
Strip(s) == RStrip(LStrip(s))

\* str.replace(c, ''): drops every occurrence of the character c
ReplaceWithEmpty(s, c) == SelectSeq(s, LAMBDA x : x # c)

\* str.startswith(p)
StartsWith(s, p) == Len(s) >= Len(p) /\ SubSeq(s, 1, Len(p)) = p

\* address.strip().replace('"', '').replace("'", '')
CleanAddress(s) == ReplaceWithEmpty(ReplaceWithEmpty(Strip(s), "\""), "'")

\* ------------------------------------------------------------------- int()
HexChars == {"0", "1", "2", "3", "4", "5", "6", "7", "8", "9",
             "a", "b", "c", "d", "e", "f", "A", "B", "C", "D", "E", "F"}

DigitVal(c) ==
    CASE c = "0" -> 0 [] c = "1" -> 1 [] c = "2" -> 2 [] c = "3" -> 3
      [] c = "4" -> 4 [] c = "5" -> 5 [] c = "6" -> 6 [] c = "7" -> 7
      [] c = "8" -> 8 [] c = "9" -> 9
      [] c \in {"a", "A"} -> 10 [] c \in {"b", "B"} -> 11
      [] c \in {"c", "C"} -> 12 [] c \in {"d", "D"} -> 13
      [] c \in {"e", "E"} -> 14 [] c \in {"f", "F"} -> 15
      [] OTHER -> 99

Parsed(v) == [ok |-> TRUE, val |-> v]
Raises == [ok |-> FALSE, val |-> 0]

\* value of a digit string in the given base; fails on a foreign character
RECURSIVE Digits(_, _, _)
Digits(s, base, acc) ==
    IF s = <<>> THEN Parsed(acc)
    ELSE IF DigitVal(Head(s)) >= base THEN Raises
    ELSE Digits(Tail(s), base, acc * base + DigitVal(Head(s)))

\* sign, then at least one digit
Signed(s, base) ==
    LET neg == s # <<>> /\ Head(s) = "-"
        body == IF s # <<>> /\ Head(s) \in {"-", "+"} THEN Tail(s) ELSE s
        r == Digits(body, base, 0)
    IN  IF body = <<>> \/ ~r.ok THEN Raises
        ELSE Parsed(IF neg THEN 0 - r.val ELSE r.val)

\* int(s) for a str s: surrounding whitespace, optional sign, decimal digits
IntBase10(s) == Signed(Strip(s), 10)

\* int(s, 16) for a str s: as above, with an optional 0x / 0X prefix
IntBase16(s) ==
    LET u == Strip(s)
        sg == IF u # <<>> /\ Head(u) \in {"-", "+"} THEN <<Head(u)>> ELSE <<>>
        rest == IF sg = <<>> THEN u ELSE Tail(u)
        pre == StartsWith(rest, <<"0", "x">>) \/ StartsWith(rest, <<"0", "X">>)
        dig == IF pre THEN SubSeq(rest, 3, Len(rest)) ELSE rest
    IN  IF dig = <<>> \/ (dig # <<>> /\ Head(dig) \in {"-", "+"}) THEN Raises
        ELSE Signed(sg \o dig, 16)

\* int(v) for a JSON value v: an int is itself, a str is parsed in base 10,
\* null raises TypeError
IntOf(v) ==
    CASE v.t = "int" -> Parsed(v.n)
      [] v.t = "str" -> IntBase10(v.s)
      [] OTHER -> Raises

\* --------------------------------------------------- balance decoding
GetBalanceNoDefault(body) == IF body.has THEN body.balance ELSE JNull

\* data.get('balance', '0')
GetBalance(body) == IF body.has THEN body.balance ELSE JStr(<<"0">>)

\* the hex-or-decimal branch: int(balance_str, 16) or int(balance_str)
BalanceMicro(v) ==
    IF v.t = "str" /\ StartsWith(v.s, <<"0", "x">>) THEN IntBase16(v.s)
    ELSE IntOf(v)

\* response.json() then the balance extraction; Raises when json() fails
\* (body is not JSON), when the document has no .get (not an object) or
\* when int() fails
DecodeBody(body) ==
    IF body.kind # "object" THEN Raises ELSE BalanceMicro(GetBalance(body))

\* balance_micro_stx / 1_000_000
ToSTX(micro) == [whole |-> micro \div MicroPerSTX, frac |-> micro % MicroPerSTX]

ExceedsOrEqual(b, t) == b.whole > t.whole \/ (b.whole = t.whole /\ b.frac >= t.frac)

NotExceeds(b, t) == b.whole < t.whole \/ (b.whole = t.whole /\ b.frac < t.frac)

\* balance_stx > min_balance
Exceeds(b, t) == b.whole > t.whole \/ (b.whole = t.whole /\ b.frac > t.frac)

NeverFallback(code) == FALSE

\* the else branch of `if response.status_code == 200`
NeedsFallback(code) == code # HTTP_OK

\* dict assignment d[k] = v
Put(d, k, v) == [x \in (DOMAIN d) \cup {k} |-> IF x = k THEN v ELSE d[x]]

\* ------------------------------------------------------------ the inputs
Names == <<"alice", "bob", "carol", "dave", "erin", "frank", "grace", "heidi">>

SP1 == <<"S", "P", "1">>
PaddedQuoted == <<" ", " ", "'", "S", "P", "2", "'", " ">>
QuotedPadded == <<"'", " ", "S", "P", "3", "'">>
DoubleQuoted == <<"\"", "S", "P", "4", "\"">>

Hex8STX == <<"0", "x", "7", "A", "1", "2", "0", "0">>
Hex5STX == <<"0", "x", "4", "c", "4", "b", "4", "0">>
Dec5STX1 == <<"5", "0", "0", "0", "0", "0", "1">>
Hex1STX == <<"0", "x", "1", "0", "0", "0", "0", "0">>
UpperPrefix == <<"0", "X", "7", "A", "1", "2", "0", "0">>
NotANumber == <<"a", "b", "c">>

Obj(v) == [kind |-> "object", has |-> TRUE, balance |-> v]
ObjNoBalance == [kind |-> "object", has |-> FALSE, balance |-> JNull]
NotJson == [kind |-> "invalid", has |-> FALSE, balance |-> JNull]
JsonArray == [kind |-> "array", has |-> FALSE, balance |-> JNull]

\* an HTTP answer; code 0 stands for requests.get raising (no answer)
Answer(code, body) == [code |-> code, body |-> body]
NoAnswer == Answer(0, NotJson)
NotFound == Answer(404, NotJson)
Ok(body) == Answer(HTTP_OK, body)

Kind(a, p, f) == [address |-> a, primary |-> p, fallback |-> f]

\* entries of long mappings: qualifying, failed on both endpoints, raising
LongKinds ==
    { Kind(JStr(SP1), Ok(Obj(JStr(Hex8STX))), NotFound),
      Kind(JStr(SP1), NotFound, NotFound),
      Kind(JStr(SP1), Ok(NotJson), NotFound) }

AllKinds ==
    LongKinds \cup
    { Kind(JStr(PaddedQuoted), Ok(Obj(JStr(Hex5STX))), NotFound),
      Kind(JStr(DoubleQuoted), Ok(Obj(JStr(Dec5STX1))), NotFound),
      Kind(JStr(SP1), Ok(Obj(JStr(Hex1STX))), NotFound),
      Kind(JStr(SP1), Ok(Obj(JInt(8000000))), NotFound),
      Kind(JStr(SP1), Ok(Obj(JStr(NotANumber))), NotFound),
      Kind(JStr(SP1), Ok(Obj(JStr(UpperPrefix))), NotFound),
      Kind(JStr(SP1), Ok(Obj(JNull)), NotFound),
      Kind(JStr(SP1), Ok(ObjNoBalance), NotFound),
      Kind(JStr(SP1), Ok(JsonArray), NotFound),
      Kind(JStr(SP1), NoAnswer, NotFound),
      Kind(JStr(QuotedPadded), Answer(500, NotJson), Ok(Obj(JStr(Hex8STX)))),
      Kind(JStr(SP1), NotFound, Ok(Obj(JStr(Hex5STX)))),
      Kind(JStr(SP1), NotFound, Ok(ObjNoBalance)),
      Kind(JStr(SP1), NotFound, Ok(NotJson)),
      Kind(JStr(SP1), NotFound, NoAnswer),
      Kind(JNull, Ok(Obj(JStr(Hex8STX))), NotFound) }

SeqsOf(S, lo, hi) == UNION {[1..n -> S] : n \in lo..hi}

Inputs == SeqsOf(AllKinds, 0, MaxEntries) \cup SeqsOf(LongKinds, PauseEvery + 1, MaxLong)

\* thresholds a caller passes: -1.0 and the default 5.0
Thresholds == {ToSTX(0 - MicroPerSTX), ToSTX(DefaultMinMicro)}

Modes == {"script", "main", "check"}
FileStates == {"valid", "missing", "invalid"}

\* ----------------------------------------------------------------- state
VARIABLES
    mode,           \* how the program is entered: as a script, main(), or check_stx_balances()
    fileState,      \* stacks_addresses.json: valid, missing or invalid JSON
    input,          \* the name -> address mapping in the file / passed by the caller
    upstream,       \* the API's answers for each entry's address (same on every run)
    pc,             \* position in the program
    address_dict,   \* the mapping main loaded / the argument of check_stx_balances
    min_balance,    \* the threshold argument
    next,           \* number of entries the for loop has taken
    i,              \* enumerate index of the current entry (zero-based)
    clean_address,  \* the normalized address of the current entry
    qualifying,     \* qualifying_addresses
    returned,       \* the mappings returned by the calls of check_stx_balances so far
    outfile,        \* the documents written to qualifying_addresses.json
    printed,        \* the messages main printed
    mainInvoked,    \* main() was called
    requests,       \* per entry of the current call: the HTTP requests issued
    pauses,         \* per entry of the current call: the time.sleep(1) calls after it
    decoded,        \* per entry of the current call: the decoded balance, if any
    outcome,        \* per entry of the current call: how its processing ended
    order           \* the indices the loop has started, in order

vars == <<mode, fileState, input, upstream, pc, address_dict, min_balance, next, i,
          clean_address, qualifying, returned, outfile, printed, mainInvoked,
          requests, pauses, decoded, outcome, order>>

env == <<mode, fileState, input, upstream>>
history == <<requests, pauses, decoded, outcome, order>>
driver == <<outfile, printed, mainInvoked>>

EmptyDict == <<>>
Undecoded == [set |-> FALSE, micro |-> 0, stx |-> ToSTX(0)]

Entry(k) == address_dict[k + 1]
Request(endpoint, address) == [endpoint |-> endpoint, address |-> address]

Init ==
    /\ mode \in Modes
    /\ fileState \in (IF mode = "check" THEN {"valid"} ELSE FileStates)
    /\ \E kinds \in Inputs :
        /\ fileState # "valid" => kinds = <<>>
        /\ input = [k \in 1..Len(kinds) |-> [name |-> Names[k], address |-> kinds[k].address]]
        /\ upstream = [k \in 1..Len(kinds) |->
                          [primary |-> kinds[k].primary, fallback |-> kinds[k].fallback]]
    /\ pc = "start"
    /\ address_dict = <<>>
    /\ min_balance = ToSTX(DefaultMinMicro)
    /\ next = 0
    /\ i = 0
    /\ clean_address = <<>>
    /\ qualifying = EmptyDict
    /\ returned = <<>>
    /\ outfile = <<>>
    /\ printed = <<>>
    /\ mainInvoked = FALSE
    /\ requests = <<>>
    /\ pauses = <<>>
    /\ decoded = <<>>
    /\ outcome = <<>>
    /\ order = <<>>

\* ------------------------------------------------------- module top level
\* Running the file: the defs execute, then line 145 evaluates the name
\* `_name_`, which is bound nowhere: NameError, the interpreter exits.
ModuleExec ==
    /\ mode = "script"
    /\ pc = "start"
    /\ pc' = "name_error"
    /\ UNCHANGED <<env, address_dict, min_balance, next, i, clean_address, qualifying,
                   returned, driver, history>>

\* ------------------------------------------------------------------ main
CallMain ==
    /\ mode = "main"
    /\ pc = "start"
    /\ mainInvoked' = TRUE
    /\ pc' = "main_load"
    /\ UNCHANGED <<env, address_dict, min_balance, next, i, clean_address, qualifying,
                   returned, outfile, printed, history>>

MainFileNotFoundFallsThrough ==
    /\ pc = "main_load"
    /\ fileState = "missing"
    /\ printed' = Append(printed, "file not found")
    /\ address_dict' = <<>>
    /\ pc' = "main_call"
    /\ UNCHANGED <<env, min_balance, next, i, clean_address, qualifying, returned,
                   outfile, mainInvoked, history>>

\* except FileNotFoundError: two messages, return
MainFileNotFound ==
    /\ pc = "main_load"
    /\ fileState = "missing"
    /\ printed' = Append(printed, "file not found")
    /\ pc' = "exit"
    /\ UNCHANGED <<env, address_dict, min_balance, next, i, clean_address, qualifying,
                   returned, outfile, mainInvoked, history>>

\* except json.JSONDecodeError: message, return
MainJSONDecodeError ==
    /\ pc = "main_load"
    /\ fileState = "invalid"
    /\ printed' = Append(printed, "not a valid JSON file")
    /\ pc' = "exit"
    /\ UNCHANGED <<env, address_dict, min_balance, next, i, clean_address, qualifying,
                   returned, outfile, mainInvoked, history>>

\* json.load succeeded; the count and the sample are printed
MainLoaded ==
    /\ pc = "main_load"
    /\ fileState = "valid"
    /\ address_dict' = input
    /\ printed' = Append(printed, "loaded")
    /\ pc' = "main_call"
    /\ UNCHANGED <<env, min_balance, next, i, clean_address, qualifying, returned,
                   outfile, mainInvoked, history>>

\* ---------------------------------------------------- check_stx_balances
\* function entry: qualifying_addresses = {} and the loop is set up
BeginScan ==
    /\ qualifying' = EmptyDict
    /\ next' = 0
    /\ i' = 0
    /\ clean_address' = <<>>
    /\ requests' = [k \in 1..Len(address_dict') |-> <<>>]
    /\ pauses' = [k \in 1..Len(address_dict') |-> 0]
    /\ decoded' = [k \in 1..Len(address_dict') |-> Undecoded]
    /\ outcome' = [k \in 1..Len(address_dict') |-> "none"]
    /\ order' = <<>>
    /\ pc' = "loop"

\* main: min_balance = 5.0; check_stx_balances(address_dict, min_balance)
MainCallCheck ==
    /\ pc = "main_call"
    /\ min_balance' = ToSTX(DefaultMinMicro)
    /\ address_dict' = address_dict
    /\ BeginScan
    /\ UNCHANGED <<env, returned, driver>>

\* a caller passes a mapping and a threshold
CallCheck ==
    /\ mode = "check"
    /\ pc = "start"
    /\ address_dict' = input
    /\ \E t \in Thresholds : min_balance' = t
    /\ BeginScan
    /\ UNCHANGED <<env, returned, driver>>

\* the caller calls again with the same mapping object and threshold
CallAgain ==
    /\ mode = "check"
    /\ pc = "returned"
    /\ Len(returned) < MaxRuns
    /\ address_dict' = address_dict
    /\ BeginScan
    /\ UNCHANGED <<env, min_balance, returned, driver>>

\* for i, (name, address) in enumerate(address_dict.items()): next entry
LoopNext ==
    /\ pc = "loop"
    /\ next < Len(address_dict)
    /\ i' = next
    /\ next' = next + 1
    /\ order' = Append(order, next)
    /\ pc' = "normalize"
    /\ UNCHANGED <<env, address_dict, min_balance, clean_address, qualifying, returned,
                   driver, requests, pauses, decoded, outcome>>

\* loop exhausted: the count is printed and qualifying_addresses returned
Return ==
    /\ pc = "loop"
    /\ next = Len(address_dict)
    /\ returned' = Append(returned, qualifying)
    /\ pc' = IF mode = "main" THEN "main_write" ELSE "returned"
    /\ UNCHANGED <<env, address_dict, min_balance, next, i, clean_address, qualifying,
                   driver, history>>

NormalizeWriteBack ==
    /\ pc = "normalize"
    /\ IF Entry(i).address.t = "str"
       THEN /\ clean_address' = CleanAddress(Entry(i).address.s)
            /\ address_dict' = [address_dict EXCEPT
                                   ![i + 1].address = JStr(CleanAddress(Entry(i).address.s))]
            /\ pc' = "primary"
       ELSE /\ pc' = "except"
            /\ UNCHANGED <<clean_address, address_dict>>
    /\ UNCHANGED <<env, min_balance, next, i, qualifying, returned, driver, history>>

\* clean_address = address.strip().replace(...).replace(...); a value that
\* is not a str has no strip: AttributeError
Normalize ==
    /\ pc = "normalize"
    /\ IF Entry(i).address.t = "str"
       THEN /\ clean_address' = CleanAddress(Entry(i).address.s)
            /\ pc' = "primary"
       ELSE /\ pc' = "except"
            /\ UNCHANGED clean_address
    /\ UNCHANGED <<env, address_dict, min_balance, next, i, qualifying, returned,
                   driver, history>>

\* response = requests.get(base_url + clean_address), then the status test
PrimaryGet ==
    /\ pc = "primary"
    /\ requests' = [requests EXCEPT ![i + 1] = Append(@, Request("primary", clean_address))]
    /\ LET r == upstream[i + 1].primary
       IN  pc' = IF r.code = 0 THEN "except"
                 ELSE IF NeedsFallback(r.code) THEN "fallback"
                 ELSE "decode_primary"
    /\ UNCHANGED <<env, address_dict, min_balance, next, i, clean_address, qualifying,
                   returned, driver, pauses, decoded, outcome, order>>

\* the body of either 200 branch: decode, convert, compare, record
DecodeAndRecord(body) ==
    LET r == DecodeBody(body)
        b == ToSTX(r.val)
    IN  IF ~r.ok
        THEN /\ pc' = "except"
             /\ UNCHANGED <<qualifying, decoded, outcome>>
        ELSE /\ decoded' = [decoded EXCEPT ![i + 1] = [set |-> TRUE, micro |-> r.val, stx |-> b]]
             /\ IF Exceeds(b, min_balance)
                THEN /\ qualifying' = Put(qualifying, Entry(i).name,
                                          [address |-> clean_address, balance |-> b])
                     /\ outcome' = [outcome EXCEPT ![i + 1] = "qualified"]
                ELSE /\ outcome' = [outcome EXCEPT ![i + 1] = "below"]
                     /\ UNCHANGED qualifying
             /\ pc' = "throttle"

\* lines 38-61
DecodePrimary ==
    /\ pc = "decode_primary"
    /\ DecodeAndRecord(upstream[i + 1].primary.body)
    /\ UNCHANGED <<env, address_dict, min_balance, next, i, clean_address, returned,
                   driver, requests, pauses, order>>

\* fallback_response = requests.get(.../v2/accounts/ + clean_address), then
\* the status test; a non-200 answer prints the failure message
FallbackGet ==
    /\ pc = "fallback"
    /\ requests' = [requests EXCEPT ![i + 1] = Append(@, Request("fallback", clean_address))]
    /\ LET r == upstream[i + 1].fallback
       IN  /\ pc' = IF r.code = 0 THEN "except"
                    ELSE IF r.code = HTTP_OK THEN "decode_fallback"
                    ELSE "throttle"
           /\ outcome' = IF r.code # 0 /\ r.code # HTTP_OK
                         THEN [outcome EXCEPT ![i + 1] = "failed"]
                         ELSE outcome
    /\ UNCHANGED <<env, address_dict, min_balance, next, i, clean_address, qualifying,
                   returned, driver, pauses, decoded, order>>

\* lines 68-90
DecodeFallback ==
    /\ pc = "decode_fallback"
    /\ DecodeAndRecord(upstream[i + 1].fallback.body)
    /\ UNCHANGED <<env, address_dict, min_balance, next, i, clean_address, returned,
                   driver, requests, pauses, order>>

\* if i > 0 and i % 5 == 0: time.sleep(1); last statement of the try body
Throttle ==
    /\ pc = "throttle"
    /\ pauses' = IF i > 0 /\ i % PauseEvery = 0
                 THEN [pauses EXCEPT ![i + 1] = @ + 1]
                 ELSE pauses
    /\ pc' = "loop"
    /\ UNCHANGED <<env, address_dict, min_balance, next, i, clean_address, qualifying,
                   returned, driver, requests, decoded, outcome, order>>

HandleExceptionBreak ==
    /\ pc = "except"
    /\ outcome' = [outcome EXCEPT ![i + 1] = "error"]
    /\ next' = Len(address_dict)
    /\ pc' = "loop"
    /\ UNCHANGED <<env, address_dict, min_balance, i, clean_address, qualifying,
                   returned, driver, requests, pauses, decoded, order>>

\* except Exception: print the error, continue
HandleException ==
    /\ pc = "except"
    /\ outcome' = [outcome EXCEPT ![i + 1] = "error"]
    /\ pc' = "loop"
    /\ UNCHANGED <<env, address_dict, min_balance, next, i, clean_address, qualifying,
                   returned, driver, requests, pauses, decoded, order>>

\* ------------------------------------------------------- main, continued
\* json.dump(qualifying_addresses, file, indent=2)
MainWrite ==
    /\ pc = "main_write"
    /\ outfile' = Append(outfile, returned[Len(returned)])
    /\ printed' = Append(printed, "saved")
    /\ pc' = "main_report"
    /\ UNCHANGED <<env, address_dict, min_balance, next, i, clean_address, qualifying,
                   returned, mainInvoked, history>>

\* the triples of the qualifying entries, or the none-found message
MainReport ==
    /\ pc = "main_report"
    /\ printed' = Append(printed, IF returned[Len(returned)] # EmptyDict
                                  THEN "summary" ELSE "none found")
    /\ pc' = "exit"
    /\ UNCHANGED <<env, address_dict, min_balance, next, i, clean_address, qualifying,
                   returned, outfile, mainInvoked, history>>

Next ==
    \/ ModuleExec
    \/ CallMain
    \/ MainFileNotFound
    \/ MainJSONDecodeError
    \/ MainLoaded
    \/ MainCallCheck
    \/ CallCheck
    \/ CallAgain
    \/ LoopNext
    \/ Normalize
    \/ PrimaryGet
    \/ DecodePrimary
    \/ FallbackGet
    \/ DecodeFallback
    \/ Throttle
    \/ HandleException
    \/ Return
    \/ MainWrite
    \/ MainReport

Spec == Init /\ [][Next]_vars

\* types
TypeOK ==
    /\ pc \in {"start", "name_error", "main_load", "main_call", "loop", "normalize",
               "primary", "decode_primary", "fallback", "decode_fallback", "throttle",
               "except", "returned", "main_write", "main_report", "exit"}
    /\ next \in 0..Len(address_dict)
    /\ Len(returned) <= MaxRuns

\* ------------------------------------------------------------ properties
Processing == {"normalize", "primary", "decode_primary", "fallback", "decode_fallback",
               "throttle", "except"}
AfterScan == {"returned", "main_write", "main_report", "exit"}

\* entry k (1-based position in the mapping) has been fully processed
Done(k) == k < next \/ (k = next /\ pc \notin Processing)

\* the threshold and a stored balance, in micro-STX
ThresholdMicro == min_balance.whole * MicroPerSTX + min_balance.frac
MicroOf(b) == b.whole * MicroPerSTX + b.frac

NameOf(k) == input[k].name
LastReturned == returned[Len(returned)]

\* C1: an entry whose balance was decoded to b is a key of the result mapping
\* (the growing one, and the one returned) if and only if b > threshold; an
\* entry with b equal to the threshold is not in it.
C1_QualifiesIffExceeds ==
    \A k \in DOMAIN decoded :
        decoded[k].set =>
            /\ (NameOf(k) \in DOMAIN qualifying) <=> (decoded[k].micro > ThresholdMicro)
            /\ pc \in AfterScan =>
                  ((NameOf(k) \in DOMAIN LastReturned) <=> (decoded[k].micro > ThresholdMicro))

\* a returned mapping that leaves out an entry decoded to exactly the
\* threshold and holds an entry decoded through the fallback endpoint
C1_Witness ==
    /\ pc = "returned"
    /\ \E k \in DOMAIN decoded :
          /\ decoded[k].set
          /\ decoded[k].micro = ThresholdMicro
          /\ NameOf(k) \notin DOMAIN LastReturned
    /\ \E k \in DOMAIN decoded :
          /\ decoded[k].set
          /\ Len(requests[k]) = 2
          /\ NameOf(k) \in DOMAIN LastReturned

\* C2: an entry that raises does not stop the scan: entries are started in
\* mapping order, and once the call has returned every entry was processed
\* and every entry decoded above the threshold has its record in the result.
C2_ExceptionDoesNotAbort ==
    /\ order = [k \in 1..Len(order) |-> k - 1]
    /\ pc \in AfterScan =>
          /\ Len(order) = Len(input)
          /\ \A k \in DOMAIN outcome : outcome[k] # "none"
          /\ \A k \in DOMAIN decoded :
                (decoded[k].set /\ decoded[k].micro > ThresholdMicro) =>
                    /\ NameOf(k) \in DOMAIN LastReturned
                    /\ MicroOf(LastReturned[NameOf(k)].balance) = decoded[k].micro

\* the call returned, an entry raised, and a later entry is in the result
C2_Witness ==
    /\ pc = "returned"
    /\ \E k \in DOMAIN outcome : \E j \in DOMAIN outcome :
          /\ k < j
          /\ outcome[k] = "error"
          /\ outcome[j] = "qualified"
          /\ NameOf(j) \in DOMAIN LastReturned

\* the requests of a processed entry: [primary] when the primary answered
\* 200 or raised, [primary, fallback] with one address when it answered
\* another status
RequestShape(k) ==
    LET rs == requests[k]
        answered == upstream[k].primary.code # 0
        ok == upstream[k].primary.code = HTTP_OK
    IN  \/ /\ Len(rs) = 1
           /\ rs[1].endpoint = "primary"
           /\ ~answered \/ ok
        \/ /\ Len(rs) = 2
           /\ rs[1].endpoint = "primary"
           /\ rs[2].endpoint = "fallback"
           /\ rs[1].address = rs[2].address
           /\ answered /\ ~ok

\* C3 as stated: every processed entry issued [primary] or [primary,
\* fallback], the fallback exactly when the primary status was not 200.
C3_PrimaryThenFallback ==
    \A k \in DOMAIN requests : Done(k) => RequestShape(k)

\* C3 amended: no entry ever has more than two requests; a processed entry
\* whose address is a string issued [primary] or [primary, fallback], the
\* fallback exactly when the primary status was not 200; a processed entry
\* whose address is not a string (normalization raises) issued no request.
C3_RequestsPerEntry ==
    \A k \in DOMAIN requests :
        /\ Len(requests[k]) <= 2
        /\ Done(k) =>
              IF input[k].address.t = "str" THEN RequestShape(k) ELSE requests[k] = <<>>

\* one processed entry went to the fallback, another stopped at the primary
C3_Witness ==
    /\ \E k \in DOMAIN requests : Done(k) /\ Len(requests[k]) = 2
    /\ \E k \in DOMAIN requests :
          Done(k) /\ Len(requests[k]) = 1 /\ upstream[k].primary.code = HTTP_OK

\* C4: at every point of a scan the keys of the result mapping are keys of
\* the input mapping and every record's balance is above the threshold; the
\* same holds of what is returned and written.
C4_KeysAndBalances ==
    LET Good(d) ==
            /\ DOMAIN d \subseteq {NameOf(k) : k \in DOMAIN input}
            /\ \A n \in DOMAIN d : MicroOf(d[n].balance) > ThresholdMicro
    IN  /\ Good(qualifying)
        /\ \A r \in DOMAIN returned : Good(returned[r])
        /\ \A w \in DOMAIN outfile : Good(outfile[w])

\* mid-scan, after a failed lookup and a raised entry, with a record held
C4_Witness ==
    /\ pc = "loop"
    /\ next < Len(address_dict)
    /\ qualifying # EmptyDict
    /\ \E k \in DOMAIN outcome : outcome[k] = "error"
    /\ \E k \in DOMAIN outcome : outcome[k] = "failed"

\* no surrounding whitespace and no quote character
IsClean(s) ==
    /\ s # <<>> => (s[1] \notin Whitespace /\ s[Len(s)] \notin Whitespace)
    /\ \A j \in DOMAIN s : s[j] \notin {"'", "\""}

\* C5: the address used in the requests and stored in the record has no
\* leading or trailing whitespace and no quote, and is one and the same.
C5_AddressIsClean ==
    \A k \in DOMAIN requests :
        /\ \A j \in DOMAIN requests[k] : IsClean(requests[k][j].address)
        /\ (NameOf(k) \in DOMAIN qualifying /\ Done(k)) =>
              /\ IsClean(qualifying[NameOf(k)].address)
              /\ \A j \in DOMAIN requests[k] :
                    requests[k][j].address = qualifying[NameOf(k)].address

\* C6: run as a script with a valid input file, the program has invoked
\* main, written the output file and printed the summary when it stops.
C6_ScriptRunsFullCycle ==
    (mode = "script" /\ fileState = "valid" /\ pc \in {"name_error", "exit"}) =>
        /\ mainInvoked
        /\ Len(returned) = 1
        /\ outfile = <<LastReturned>>
        /\ printed # <<>>
        /\ printed[Len(printed)] \in {"summary", "none found"}

\* C7: when main finds the input file missing or invalid it never enters
\* check_stx_balances (so no request is issued), and it ends having printed
\* only the error message.
C7_InputErrorNoNetwork ==
    (mode = "main" /\ fileState \in {"missing", "invalid"}) =>
        /\ pc \in {"start", "main_load", "exit"}
        /\ returned = <<>>
        /\ requests = <<>>
        /\ outfile = <<>>
        /\ pc = "exit" => printed = <<IF fileState = "missing" THEN "file not found"
                                      ELSE "not a valid JSON file">>

\* main returned after finding the file missing
C7_Witness ==
    /\ mode = "main"
    /\ fileState = "missing"
    /\ pc = "exit"
    /\ printed = <<"file not found">>

\* C8: with the same answers from the API, all calls on the same mapping and
\* threshold return the same mapping, and the mapping passed in is unchanged.
C8_Idempotent ==
    /\ \A r1 \in DOMAIN returned : \A r2 \in DOMAIN returned : returned[r1] = returned[r2]
    /\ pc # "start" /\ mode = "check" => address_dict = input

\* two calls returned a mapping with a record, on an input with a quoted
\* address and an entry that raised
C8_Witness ==
    /\ pc = "returned"
    /\ Len(returned) >= 2
    /\ returned[1] # EmptyDict
    /\ \E k \in DOMAIN outcome : outcome[k] = "error"
    /\ \E k \in DOMAIN input : input[k].address.s # CleanAddress(input[k].address.s)

\* C9: after every processed entry of index i > 0 with i mod 5 = 0, whatever
\* its outcome, exactly one pause occurred, and none after any other entry.
C9_PauseAfterEveryFifth ==
    \A k \in DOMAIN pauses :
        Done(k) => pauses[k] = (IF k - 1 > 0 /\ (k - 1) % PauseEvery = 0 THEN 1 ELSE 0)

\* the endpoint that answered entry k with 200 sent an object with no
\* balance field
MissingField(k) ==
    /\ input[k].address.t = "str"
    /\ \/ upstream[k].primary = Ok(ObjNoBalance)
       \/ /\ upstream[k].primary.code \notin {0, HTTP_OK}
          /\ upstream[k].fallback = Ok(ObjNoBalance)

\* C10 as stated: for every threshold, an entry answered 200 without a
\* balance field is never recorded in the result mapping.
C10_MissingFieldNeverRecorded ==
    \A k \in DOMAIN outcome :
        (Done(k) /\ MissingField(k)) => NameOf(k) \notin DOMAIN qualifying

\* C10 amended: an entry answered 200 without a balance field raises
\* nothing and is decoded as a balance of 0; it is recorded (with balance 0)
\* exactly when the threshold is negative, so never for a threshold >= 0.
C10_MissingFieldIsZero ==
    \A k \in DOMAIN outcome :
        (Done(k) /\ MissingField(k)) =>
            /\ outcome[k] \in {"qualified", "below"}
            /\ decoded[k].set
            /\ decoded[k].micro = 0
            /\ (NameOf(k) \in DOMAIN qualifying) <=> (ThresholdMicro < 0)
            /\ NameOf(k) \in DOMAIN qualifying =>
                  qualifying[NameOf(k)].balance = [whole |-> 0, frac |-> 0]

\* under the default threshold the entry is left out and a later entry is
\* still processed and recorded
C10_Witness ==
    /\ pc = "returned"
    /\ ThresholdMicro = DefaultMinMicro
    /\ \E k \in DOMAIN outcome : \E j \in DOMAIN outcome :
          /\ k < j
          /\ MissingField(k)
          /\ NameOf(k) \notin DOMAIN LastReturned
          /\ outcome[j] = "qualified"

====
